---- MODULE Spec2Model ----
(***************************************************************************)
(* Model of osbuild's BuildRoot (src/osbuild/buildroot.py): the context    *)
(* manager that sets up /dev and /var for a contained build, the registry  *)
(* of API endpoints, and run().                                            *)
(*                                                                         *)
(* The program state is the BuildRoot instance (_exitstack, _apis, dev,    *)
(* var).  `held` is the host side of it: the temporary directories, the   *)
(* tmpfs mount and the entered API contexts that exist at the moment.      *)
(* `lastOp` records what the last call did (its error, what it acquired,   *)
(* what it released and in which order), so that properties of a call can  *)
(* be stated as state predicates; `relFails` counts the release callbacks *)
(* that have raised on their own so far.  `devnodes` are the device nodes  *)
(* the last call made and left in its tmpfs.  `env` is what the host and   *)
(* the caller supply to a call (the umask of the process, the root tree,   *)
(* libdir, the arguments of run(), what the child writes and how it        *)
(* exits); `res` is what the last call returned or raised when it was      *)
(* run().                                                                  *)
(***************************************************************************)
EXTENDS Integers, Sequences, FiniteSets, TLC

VARIABLES exitstack, apis, dev, var, held, opens, relFails, lastOp,
          devnodes, env, res

vars == <<exitstack, apis, dev, var, held, opens, relFails, lastOp,
          devnodes, env, res>>

\* ---- bounds -------------------------------------------------------------
\* number of __enter__ and register_api calls explored, taken together
MaxCalls == 3
\* number of release callbacks that raise on their own in one behaviour
MaxFail == 1
\* number of binds and readonly_binds a caller passes to run(), taken together
MaxBinds == 2
\* number of bytes the child writes
MaxBytes == 3

\* endpoint names an API object may carry (api.endpoint)
Names == {"a", "b"}

\* ---- values -------------------------------------------------------------
\* Python's None for self.dev / self.var; a directory is named by the number
\* of the __enter__ call that created it (tempfile names are fresh).
None == 0

\* _mknod calls of __enter__, in program order
DevNodes == <<"full", "null", "random", "urandom", "tty", "zero">>

\* The statements of __enter__ that can raise, in program order:
\*   1 makedirs(rundir)   2 TemporaryDirectory dev   3 makedirs(vardir)
\*   4 TemporaryDirectory var   5 mount tmpfs   6..11 the six mknod calls
\*   11+i enter_context(_apis[i])
StepMakedirsRun == 1
StepTmpDev == 2
StepMakedirsVar == 3
StepTmpVar == 4
StepMount == 5
StepMknod(k) == StepMount + k
StepApi(i) == StepMount + Len(DevNodes) + i
NSteps(as) == StepApi(Len(as))

\* resources on the host, and the callbacks of an ExitStack
Rec(kind, i, g) == [kind |-> kind, i |-> i, g |-> g]
DevDir(g) == Rec("dev", 0, g)
VarDir(g) == Rec("var", 0, g)
Mount(g) == Rec("mount", 0, g)
Api(i, g) == Rec("api", i, g)
\* the umount callback is a lambda that reads self.dev when it is called
Umount == Rec("umount", 0, 0)

\* what a callback releases when it is called with self.dev = d
Res(e, d) == IF e.kind = "umount" THEN Mount(d) ELSE e

RECURSIVE Reverse(_)
Reverse(s) == IF s = <<>> THEN <<>> ELSE Append(Reverse(Tail(s)), Head(s))

Range(s) == {s[i] : i \in 1..Len(s)}

\* contextlib.ExitStack: an object (never falsy) holding its callbacks
NoStack == [obj |-> FALSE, callbacks |-> <<>>]
Stack(cbs) == [obj |-> TRUE, callbacks |-> cbs]

\* `if self._exitstack:` / `if not self._exitstack:`
isOpen == exitstack.obj

\* ---- ExitStack.__exit__ / ExitStack.close -------------------------------
\* A stack that gives up at the first callback that raises.
RECURSIVE UnwindAbort(_, _, _, _)
UnwindAbort(cbs, F, d, h) ==
    IF cbs = <<>>
    THEN [held |-> h, attempted |-> <<>>, failed |-> <<>>]
    ELSE LET n == Len(cbs)
             e == cbs[n]
             busy == e.kind = "dev" /\ Mount(e.g) \in h
             fails == n \in F \/ busy
             rest == UnwindAbort(SubSeq(cbs, 1, n - 1), F, d, h \ {Res(e, d)})
         IN  IF fails
             THEN [held |-> h, attempted |-> <<e>>, failed |-> <<e>>]
             ELSE [held |-> rest.held,
                   attempted |-> <<e>> \o rest.attempted,
                   failed |-> rest.failed]

\* The callbacks are called last-in first-out.  A callback that raises does
\* not stop the ones below it; the exception raised last is the one that
\* leaves.  F is the set of stack positions whose callback raises; removing
\* the device directory also raises while the tmpfs is still mounted on it.
RECURSIVE Unwind(_, _, _, _)
Unwind(cbs, F, d, h) ==
    IF cbs = <<>>
    THEN [held |-> h, attempted |-> <<>>, failed |-> <<>>]
    ELSE LET n == Len(cbs)
             e == cbs[n]
             busy == e.kind = "dev" /\ Mount(e.g) \in h
             fails == n \in F \/ busy
             h2 == IF fails THEN h ELSE h \ {Res(e, d)}
             rest == Unwind(SubSeq(cbs, 1, n - 1), F, d, h2)
         IN  [held |-> rest.held,
              attempted |-> <<e>> \o rest.attempted,
              failed |-> (IF fails THEN <<e>> ELSE <<>>) \o rest.failed]

\* the choices of F for a stack of n callbacks
Failing(n) == {F \in SUBSET (1..n) : relFails + Cardinality(F) <= MaxFail}

\* some release callback has raised so far
relFailed == relFails > 0

\* ---- what run() gives back ----------------------------------------------
\* CompletedBuild(proc, output) with its properties returncode, stdout, stderr
CompletedBuild(returncode, output) ==
    [returncode |-> returncode, output |-> output, stdout |-> output, stderr |-> output]
\* no object is returned by a call that raises
NoBuild == CompletedBuild(0, <<>>)

\* The outcome of a run(): the exception raised ("none" when it returns), the
\* list `mounts` given to Popen, whether the child was started, whether an
\* object was returned and which, the texts passed to monitor.log in order,
\* and (_exitstack, _apis, dev, var) as they were when the call began.
Result(err, mounts, spawned, returned, completed, log, pre) ==
    [err |-> err, mounts |-> mounts, spawned |-> spawned, returned |-> returned,
     completed |-> completed, log |-> log, pre |-> pre]
\* the last call was not run()
NoRes == Result("norun", <<>>, FALSE, FALSE, NoBuild, <<>>, <<>>)

\* the umask the process can have: 0, or 0o022 as a root shell usually has
Umasks == {0, 18}
\* A host on which everything is in place, and a run() without binds of a
\* child that writes nothing and exits with 0.
DefaultEnv ==
    [umask |-> 18, mount_boot |-> TRUE, boot |-> "dir", usr |-> "dir",
     osbuildDir |-> "full", binds |-> <<>>, readonly_binds |-> <<>>,
     bwrap |-> TRUE, chunks |-> <<>>, returncode |-> 0]

\* ---- device nodes -------------------------------------------------------
\* stat.S_IFCHR and stat.S_IMODE
S_IFCHR == 8192
S_IMODE(mode) == mode % 4096
\* os.makedev, os.major, os.minor for major < 4096 and minor < 256
makedev(major, minor) == major * 256 + minor
major(device) == (device \div 256) % 4096
minor(device) == device % 256

\* a & ~m on the n low bits
RECURSIVE BitAndNot(_, _, _)
BitAndNot(a, m, n) ==
    IF n = 0
    THEN 0
    ELSE (IF a % 2 = 1 /\ m % 2 = 0 THEN 1 ELSE 0)
         + 2 * BitAndNot(a \div 2, m \div 2, n - 1)

\* the (major, minor) arguments of the _mknod calls, in the order of DevNodes
DevNumbers == << <<1, 7>>, <<1, 3>>, <<1, 8>>, <<1, 9>>, <<5, 0>>, <<1, 5>> >>
\* 0o666, the mode argument of every _mknod call
Mode666 == 438

\* _mknod(self.dev, name, mode, major, minor) in the tmpfs of __enter__
\* number g: os.mknod creates a node of the type asked for, with the
\* permission bits asked for less those of the umask of the process.
Mknod(g, name, mode, ma, mi, umask) ==
    [g |-> g, name |-> name,
     mode |-> S_IFCHR + BitAndNot(S_IMODE(mode), umask, 12),
     device |-> makedev(ma, mi)]

\* the nodes made by the statements 1..k of __enter__ number g
NodesMade(k, g, umask) ==
    {Mknod(g, DevNodes[j], Mode666, DevNumbers[j][1], DevNumbers[j][2], umask) :
        j \in 1..(IF k <= StepMount THEN 0
                  ELSE IF k >= StepMknod(Len(DevNodes)) THEN Len(DevNodes)
                  ELSE k - StepMount)}


\* ---- the record of the last call ----------------------------------------
Op(op, arg, err, wasOpen, pre, preApis, acquired, attempted, failed, spawned, binds) ==
    [op |-> op, arg |-> arg, err |-> err, wasOpen |-> wasOpen, pre |-> pre,
     preApis |-> preApis, acquired |-> acquired, attempted |-> attempted,
     failed |-> failed, spawned |-> spawned, binds |-> binds]

Init ==
    /\ exitstack = NoStack
    /\ apis = <<>>
    /\ dev = None
    /\ var = None
    /\ held = {}
    /\ opens = 0
    /\ relFails = 0
    /\ lastOp = Op("init", 0, "none", FALSE, <<>>, <<>>, <<>>, <<>>, <<>>, FALSE, <<>>)
    /\ devnodes = {}
    /\ env \in {[DefaultEnv EXCEPT !.umask = u] : u \in Umasks}
    /\ res = NoRes

\* ---- __enter__ ----------------------------------------------------------
\* the resources taken by the statements 1..k of __enter__ number g
Acquired(k, g, as) ==
    (IF k >= StepTmpDev THEN <<DevDir(g)>> ELSE <<>>)
    \o (IF k >= StepTmpVar THEN <<VarDir(g)>> ELSE <<>>)
    \o (IF k >= StepMount THEN <<Mount(g)>> ELSE <<>>)
    \o [i \in 1..(IF k > StepApi(0) THEN k - StepApi(0) ELSE 0) |-> Api(i, g)]

\* An __enter__ that forgets to register the umount callback.
ScratchNoUmount(k, g, as) ==
    (IF k >= StepTmpDev THEN <<DevDir(g)>> ELSE <<>>)
    \o (IF k >= StepTmpVar THEN <<VarDir(g)>> ELSE <<>>)
    \o [i \in 1..(IF k > StepApi(0) THEN k - StepApi(0) ELSE 0) |-> Api(i, g)]

\* the callbacks pushed on the ExitStack by the statements 1..k
Scratch(k, g, as) ==
    (IF k >= StepTmpDev THEN <<DevDir(g)>> ELSE <<>>)
    \o (IF k >= StepTmpVar THEN <<VarDir(g)>> ELSE <<>>)
    \o (IF k >= StepMount THEN <<Umount>> ELSE <<>>)
    \o [i \in 1..(IF k > StepApi(0) THEN k - StepApi(0) ELSE 0) |-> Api(i, g)]

\* failAt = 0: every statement succeeds; otherwise statement failAt raises
\* and the `with self._exitstack:` block unwinds the scratch stack.
Enter(failAt, F) ==
    /\ opens + Len(apis) < MaxCalls
    /\ LET g == opens + 1
           k == IF failAt = 0 THEN NSteps(apis) ELSE failAt - 1
           scratch == Scratch(k, g, apis)
           d == IF k >= StepTmpDev THEN g ELSE dev
           v == IF k >= StepTmpVar THEN g ELSE var
           acq == Acquired(k, g, apis)
           u == Unwind(scratch, F, d, held \cup Range(acq))
       IN  /\ F \subseteq 1..Len(scratch)
           /\ failAt = 0 => F = {}
           /\ opens' = g
           /\ dev' = d
           /\ var' = v
           /\ apis' = apis
           /\ IF failAt = 0
              THEN /\ exitstack' = Stack(scratch)
                   /\ held' = held \cup Range(acq)
                   /\ relFails' = relFails
                   /\ lastOp' = Op("open", failAt, "none", isOpen, exitstack.callbacks,
                                   apis, acq, <<>>, <<>>, FALSE, <<>>)
              ELSE /\ exitstack' = Stack(<<>>)
                   /\ held' = u.held
                   /\ relFails' = relFails + Cardinality(F)
                   /\ lastOp' = Op("open", failAt,
                                   IF u.failed = <<>> THEN "step" ELSE "release",
                                   isOpen, exitstack.callbacks, apis, acq,
                                   u.attempted, u.failed, FALSE, <<>>)
           /\ devnodes' = {n \in NodesMade(k, g, env.umask) : Mount(n.g) \in held'}
           /\ res' = NoRes
           /\ env' = env

\* ---- __exit__ -----------------------------------------------------------
Exit(F) ==
    IF ~exitstack.obj
    THEN /\ F = {}
         /\ lastOp' = Op("close", 0, "AttributeError", isOpen, exitstack.callbacks,
                         apis, <<>>, <<>>, <<>>, FALSE, <<>>)
         /\ res' = NoRes
         /\ devnodes' = {}
         /\ UNCHANGED <<exitstack, apis, dev, var, held, opens, relFails, env>>
    ELSE LET u == Unwind(exitstack.callbacks, F, dev, held)
         IN  /\ F \subseteq 1..Len(exitstack.callbacks)
             /\ held' = u.held
             /\ relFails' = relFails + Cardinality(F)
             /\ exitstack' = IF u.failed = <<>> THEN NoStack ELSE Stack(<<>>)
             /\ lastOp' = Op("close", 0, IF u.failed = <<>> THEN "none" ELSE "release",
                             isOpen, exitstack.callbacks, apis, <<>>, u.attempted,
                             u.failed, FALSE, <<>>)
             /\ devnodes' = {}
             /\ res' = NoRes
             /\ UNCHANGED <<apis, dev, var, opens, env>>

\* ---- register_api -------------------------------------------------------
\* A register_api that only records the endpoint, whether or not a stack
\* exists.
RegisterApiRecordOnly(name, fails) ==
    /\ opens + Len(apis) < MaxCalls
    /\ apis' = Append(apis, name)
    /\ ~fails
    /\ lastOp' = Op("register", Len(apis) + 1, "none", isOpen,
                    exitstack.callbacks, apis, <<>>, <<>>, <<>>, FALSE, <<>>)
    /\ res' = NoRes
    /\ devnodes' = {}
    /\ UNCHANGED <<exitstack, held, dev, var, opens, relFails, env>>

\* fails: api.__enter__ raises (it is only called when a stack exists)
RegisterApi(name, fails) ==
    /\ opens + Len(apis) < MaxCalls
    /\ apis' = Append(apis, name)
    /\ LET r == Api(Len(apis) + 1, opens)
       IN  IF ~isOpen
           THEN /\ ~fails
                /\ lastOp' = Op("register", Len(apis) + 1, "none", isOpen,
                                exitstack.callbacks, apis, <<>>, <<>>, <<>>, FALSE, <<>>)
                /\ UNCHANGED <<exitstack, held>>
           ELSE IF fails
           THEN /\ lastOp' = Op("register", Len(apis) + 1, "step", isOpen,
                                exitstack.callbacks, apis, <<>>, <<>>, <<>>, FALSE, <<>>)
                /\ UNCHANGED <<exitstack, held>>
           ELSE /\ exitstack' = Stack(Append(exitstack.callbacks, r))
                /\ held' = held \cup {r}
                /\ lastOp' = Op("register", Len(apis) + 1, "none", isOpen,
                                exitstack.callbacks, apis, <<r>>, <<>>, <<>>, FALSE, <<>>)
    /\ res' = NoRes
    /\ devnodes' = {}
    /\ UNCHANGED <<dev, var, opens, relFails, env>>

\* ---- run ----------------------------------------------------------------
\* What os.path.isdir / os.path.islink answer for the four kinds of entry a
\* path of the root tree can be: nothing, a directory, a regular file, a
\* symbolic link to a directory (isdir follows the link, islink does not).
Kinds == {"absent", "dir", "file", "linkdir"}
isdir(kind) == kind \in {"dir", "linkdir"}
\* An islink that never sees a link.
islinkNever(kind) == FALSE
islink(kind) == kind = "linkdir"

\* os.path.join(self._rootdir, p) and os.path.join("/", p), on the paths
\* run() joins; the root tree is called <root> (self._rootdir)
RootJoin(p) ==
    CASE p = "boot" -> "<root>/boot"
      [] p = "usr" -> "<root>/usr"
      [] p = "etc/mke2fs.conf" -> "<root>/etc/mke2fs.conf"
SlashJoin(p) ==
    CASE p = "boot" -> "/boot"
      [] p = "usr" -> "/usr"

\* the strings a caller passes in binds / readonly_binds, and b.split(":")
BindStrs == {"s:d", "t:e", "x"}
SplitColon(b) ==
    CASE b = "s:d" -> <<"s", "d">>
      [] b = "t:e" -> <<"t", "e">>
      [] b = "x" -> <<"x">>

\* "/run/osbuild/api/" + api.endpoint
ApiPath(name) ==
    CASE name = "a" -> "/run/osbuild/api/a"
      [] name = "b" -> "/run/osbuild/api/b"

\* one `mounts += [option, ...]` statement: an option of bwrap and its
\* arguments
Directive(opt, args) == [opt |-> opt, args |-> args]

\* imports = ["usr"], with "boot" inserted in front when mount_boot is set
Imports(e) == (IF e.mount_boot THEN <<"boot">> ELSE <<>>) \o <<"usr">>
SourceKind(e, p) == IF p = "boot" THEN e.boot ELSE e.usr

\* the loop over imports: one --ro-bind per import whose source is a
\* directory and not a symbolic link
ImportMounts(e) ==
    LET bound == SelectSeq(Imports(e),
                           LAMBDA p : isdir(SourceKind(e, p)) /\ ~islink(SourceKind(e, p)))
    IN  [i \in 1..Len(bound) |->
            Directive("--ro-bind", <<RootJoin(bound[i]), SlashJoin(bound[i])>>)]

\* the statements between the import loop and the caller's binds
SystemMounts(e) ==
    << Directive("--symlink", <<"usr/lib", "/lib">>),
       Directive("--symlink", <<"usr/lib64", "/lib64">>),
       Directive("--symlink", <<"usr/bin", "/bin">>),
       Directive("--symlink", <<"usr/sbin", "/sbin">>),
       Directive("--dev-bind", <<dev, "/dev">>),
       Directive("--tmpfs", <<"/dev/shm">>),
       Directive("--dir", <<"/etc">>),
       Directive("--tmpfs", <<"/run">>),
       Directive("--tmpfs", <<"/tmp">>),
       Directive("--bind", <<var, "/var">>),
       Directive("--proc", <<"/proc">>),
       Directive("--ro-bind", <<"/sys", "/sys">>),
       Directive("--ro-bind-try", <<"/sys/fs/selinux", "/sys/fs/selinux">>),
       Directive("--ro-bind-try", <<RootJoin("etc/mke2fs.conf"), "/etc/mke2fs.conf">>),
       Directive("--ro-bind", <<"<libdir>", "/run/osbuild/lib">>) >>
    \o (IF e.osbuildDir = "empty"
        THEN <<Directive("--ro-bind", <<"<modpath>", "/run/osbuild/lib/osbuild">>)>>
        ELSE <<>>)

\* the two loops over the caller's binds
CallerMounts(e) ==
    [i \in 1..Len(e.binds) |-> Directive("--bind", SplitColon(e.binds[i]))]
    \o [i \in 1..Len(e.readonly_binds) |->
           Directive("--ro-bind", SplitColon(e.readonly_binds[i]))]

\* the API directory and one --bind per registered endpoint; an API object
\* is known by its position in _apis, and so is its socket address
ApiMounts(as) ==
    <<Directive("--dir", <<"/run/osbuild/api">>)>>
    \o [i \in 1..Len(as) |-> Directive("--bind", <<i, ApiPath(as[i])>>)]

\* An argument list in which the caller's binds come first.
MountsCallerFirst(e) ==
    CallerMounts(e) \o ImportMounts(e) \o SystemMounts(e) \o ApiMounts(apis)

\* the list `mounts` run() hands to bwrap
Mounts(e) ==
    ImportMounts(e) \o SystemMounts(e) \o CallerMounts(e) \o ApiMounts(apis)

\* ---- run: the output of the child ----------------------------------------
\* The bytes the child can write: "a" is an ASCII byte, "L" the lead byte of
\* a two-byte UTF-8 sequence and "C" its continuation byte.  The characters
\* of a str: "a", and "E" for the character encoded as L C.
Bytes == {"a", "L", "C"}

\* bytes.decode("utf-8") (strict): ok is FALSE where Python raises
\* UnicodeDecodeError
RECURSIVE Decode(_)
Decode(buf) ==
    IF buf = <<>>
    THEN [ok |-> TRUE, txt |-> <<>>]
    ELSE IF Head(buf) = "a"
    THEN LET r == Decode(Tail(buf))
         IN  [ok |-> r.ok, txt |-> IF r.ok THEN <<"a">> \o r.txt ELSE <<>>]
    ELSE IF Head(buf) = "L" /\ Len(buf) >= 2 /\ buf[2] = "C"
    THEN LET r == Decode(SubSeq(buf, 3, Len(buf)))
         IN  [ok |-> r.ok, txt |-> IF r.ok THEN <<"E">> \o r.txt ELSE <<>>]
    ELSE [ok |-> FALSE, txt |-> <<>>]

\* The loop on os.read and what follows it: chunks are the non-empty buffers
\* os.read returns before the empty one; each is decoded on its own, written
\* to `data` (out) and passed to monitor.log (log).  After end of file
\* communicate() has nothing left to return: its buffer is b"", which is
\* decoded, logged and written as well.
RECURSIVE Stream(_, _, _)
Stream(chunks, out, log) ==
    IF chunks = <<>>
    THEN [err |-> "none", output |-> out \o Decode(<<>>).txt,
          log |-> Append(log, Decode(<<>>).txt)]
    ELSE LET d == Decode(Head(chunks))
         IN  IF d.ok
             THEN Stream(Tail(chunks), out \o d.txt, Append(log, d.txt))
             ELSE [err |-> "UnicodeDecodeError", output |-> out, log |-> log]


\* the --bind destinations of the registered endpoints, in _apis order
ApiBinds(as) == [i \in 1..Len(as) |-> <<"/run/osbuild/api", as[i]>>]

\* A run() without the `if not self._exitstack` guard.
RunOutcomeNoGuard ==
    IF dev = None \/ var = None
    THEN Op("run", 0, "TypeError", isOpen, exitstack.callbacks, apis,
            <<>>, <<>>, <<>>, FALSE, ApiBinds(apis))
    ELSE Op("run", 0, "none", isOpen, exitstack.callbacks, apis,
            <<>>, <<>>, <<>>, TRUE, ApiBinds(apis))

\* What run() does in the current state: the guard, the command line, Popen.
\* Popen raises TypeError, before it starts anything, when the command line
\* holds None (self.dev or self.var never assigned).
RunOutcome ==
    IF ~isOpen
    THEN Op("run", 0, "NotOpen", isOpen, exitstack.callbacks, apis,
            <<>>, <<>>, <<>>, FALSE, <<>>)
    ELSE IF dev = None \/ var = None
    THEN Op("run", 0, "TypeError", isOpen, exitstack.callbacks, apis,
            <<>>, <<>>, <<>>, FALSE, ApiBinds(apis))
    ELSE Op("run", 0, "none", isOpen, exitstack.callbacks, apis,
            <<>>, <<>>, <<>>, TRUE, ApiBinds(apis))

\* A run() that raises when the child exits with a status other than 0.
RunResultChecked(e) ==
    LET o == RunOutcome
        m == Mounts(e)
        st == Stream(e.chunks, <<>>, <<>>)
        pre == <<exitstack, apis, dev, var>>
    IN  IF o.err = "NotOpen"
        THEN Result("NotOpen", <<>>, FALSE, FALSE, NoBuild, <<>>, pre)
        ELSE IF e.osbuildDir = "missing"
        THEN Result("FileNotFoundError", <<>>, FALSE, FALSE, NoBuild, <<>>, pre)
        ELSE IF o.err = "TypeError"
        THEN Result("TypeError", m, FALSE, FALSE, NoBuild, <<>>, pre)
        ELSE IF ~e.bwrap
        THEN Result("FileNotFoundError", m, FALSE, FALSE, NoBuild, <<>>, pre)
        ELSE IF st.err # "none"
        THEN Result(st.err, m, TRUE, FALSE, NoBuild, st.log, pre)
        ELSE IF e.returncode # 0
        THEN Result("CalledProcessError", m, TRUE, FALSE, NoBuild, st.log, pre)
        ELSE Result("none", m, TRUE, TRUE, CompletedBuild(e.returncode, st.output),
                    st.log, pre)

\* what run() returns or raises, given what the host and the caller supply
RunResult(e) ==
    LET o == RunOutcome
        m == Mounts(e)
        st == Stream(e.chunks, <<>>, <<>>)
        pre == <<exitstack, apis, dev, var>>
    IN  IF o.err = "NotOpen"
        THEN Result("NotOpen", <<>>, FALSE, FALSE, NoBuild, <<>>, pre)
        ELSE IF e.osbuildDir = "missing"
        THEN Result("FileNotFoundError", <<>>, FALSE, FALSE, NoBuild, <<>>, pre)
        ELSE IF o.err = "TypeError"
        THEN Result("TypeError", m, FALSE, FALSE, NoBuild, <<>>, pre)
        ELSE IF ~e.bwrap
        THEN Result("FileNotFoundError", m, FALSE, FALSE, NoBuild, <<>>, pre)
        ELSE IF st.err # "none"
        THEN Result(st.err, m, TRUE, FALSE, NoBuild, st.log, pre)
        ELSE Result("none", m, TRUE, TRUE, CompletedBuild(e.returncode, st.output),
                    st.log, pre)

\* A run() that drops the stack when it raises.
RunClosesOnError ==
    /\ res' = RunResult(env)
    /\ lastOp' = [RunOutcome EXCEPT !.err = RunResult(env).err,
                                    !.spawned = RunResult(env).spawned]
    /\ exitstack' = IF RunResult(env).err = "none" THEN exitstack ELSE NoStack
    /\ devnodes' = {}
    /\ UNCHANGED <<apis, dev, var, held, opens, relFails, env>>

Run ==
    /\ res' = RunResult(env)
    /\ lastOp' = [RunOutcome EXCEPT !.err = RunResult(env).err,
                                    !.spawned = RunResult(env).spawned]
    /\ devnodes' = {}
    /\ UNCHANGED <<exitstack, apis, dev, var, held, opens, relFails, env>>

Next ==
    \/ \E failAt \in 0..NSteps(apis), F \in Failing(Len(Scratch(NSteps(apis), 0, apis))) :
          Enter(failAt, F)
    \/ \E F \in Failing(Len(exitstack.callbacks)) : Exit(F)
    \/ \E name \in Names, fails \in BOOLEAN : RegisterApi(name, fails)
    \/ Run

Spec == Init /\ [][Next]_vars

\* ---- run() on its own: every request on a few BuildRoots -----------------
\* the sequences of at most n elements of S
SeqsUpTo(S, n) == UNION {[1..k -> S] : k \in 0..n}

\* the buffers os.read returns for the bytes T when the reads end after the
\* positions in cuts (a read returns what is in the pipe, at most 32768 bytes)
RECURSIVE Chunked(_, _, _)
Chunked(T, cuts, from) ==
    IF from > Len(T)
    THEN <<>>
    ELSE LET later == {c \in cuts : c >= from /\ c < Len(T)}
             to == IF later = {} THEN Len(T)
                   ELSE CHOOSE c \in later : \A c2 \in later : c <= c2
         IN  <<SubSeq(T, from, to)>> \o Chunked(T, cuts, to + 1)

\* the root trees, libdirs and caller's binds run() is given
EnvMounts ==
    {[DefaultEnv EXCEPT !.mount_boot = mb, !.boot = kb, !.usr = ku,
                        !.osbuildDir = od, !.binds = rw, !.readonly_binds = ro] :
        mb \in BOOLEAN, kb \in Kinds, ku \in Kinds,
        od \in {"full", "empty", "missing"},
        rw \in SeqsUpTo(BindStrs, MaxBinds),
        ro \in SeqsUpTo(BindStrs, MaxBinds)}

\* exit statuses of the child (proc.returncode)
Codes == {0, 1, 255}

\* what the child writes, how the reads cut it, how it exits, and whether
\* bwrap can be executed at all
EnvStream ==
    {[DefaultEnv EXCEPT !.chunks = Chunked(T, cuts, 1), !.returncode = rc, !.bwrap = bw] :
        T \in SeqsUpTo(Bytes, MaxBytes), cuts \in SUBSET (1..(MaxBytes - 1)),
        rc \in Codes, bw \in BOOLEAN}

\* the BuildRoot after register_api of the endpoints named in as and a
\* successful __enter__
Opened(as) ==
    /\ exitstack = Stack(Scratch(NSteps(as), 1, as))
    /\ apis = as
    /\ dev = 1
    /\ var = 1
    /\ held = Range(Acquired(NSteps(as), 1, as))
    /\ opens = 1
    /\ relFails = 0
    /\ lastOp = Op("open", 0, "none", FALSE, <<>>, as, Acquired(NSteps(as), 1, as),
                   <<>>, <<>>, FALSE, <<>>)
    /\ devnodes = NodesMade(NSteps(as), 1, DefaultEnv.umask)
    /\ res = NoRes

\* the BuildRoot as constructed
NeverOpened ==
    /\ exitstack = NoStack
    /\ apis = <<>>
    /\ dev = None
    /\ var = None
    /\ held = {}
    /\ opens = 0
    /\ relFails = 0
    /\ lastOp = Op("init", 0, "none", FALSE, <<>>, <<>>, <<>>, <<>>, <<>>, FALSE, <<>>)
    /\ devnodes = {}
    /\ res = NoRes

InitRun ==
    /\ \/ NeverOpened
       \/ \E as \in SeqsUpTo(Names, 2) : Opened(as)
    /\ env \in {e \in EnvMounts : Len(e.binds) + Len(e.readonly_binds) <= MaxBinds}
               \cup EnvStream

SpecRun == InitRun /\ [][Run]_vars

TypeOK ==
    /\ exitstack.obj \in BOOLEAN
    /\ dev \in 0..opens
    /\ var \in 0..opens
    /\ opens \in 0..MaxCalls
    /\ relFails \in 0..MaxFail
    /\ opens + Len(apis) <= MaxCalls

\* ---- properties ---------------------------------------------------------
\* the last call was an __enter__ that raised
FailedOpen == lastOp.op = "open" /\ lastOp.err # "none"

\* what the callbacks es released, self.dev being what it is now
Released(es) == [i \in 1..Len(es) |-> Res(es[i], dev)]

\* position of a kind of callback in the documented teardown order
Rank(kind) ==
    CASE kind = "api" -> 0 [] kind = "umount" -> 1 [] kind = "var" -> 2 [] kind = "dev" -> 3

C2_ClosedAfterFailedOpen ==
    (FailedOpen /\ ~lastOp.wasOpen) =>
        /\ RunOutcome.err = "NotOpen"
        /\ ~RunOutcome.spawned
        /\ ~isOpen

\* C3: __exit__ on an open BuildRoot calls every callback of the stack in
\* reverse order of acquisition (endpoints by decreasing registration index,
\* then umount, then the var directory, then the dev directory) and, when no
\* release has raised, nothing of the BuildRoot is left on the host.
C3_CloseReleasesAll ==
    (lastOp.op = "close" /\ lastOp.wasOpen /\ ~relFailed) =>
        /\ lastOp.attempted = Reverse(lastOp.pre)
        /\ \A i, j \in 1..Len(lastOp.attempted) :
              i < j =>
                 /\ Rank(lastOp.attempted[i].kind) <= Rank(lastOp.attempted[j].kind)
                 /\ (lastOp.attempted[i].kind = "api" /\ lastOp.attempted[j].kind = "api")
                       => lastOp.attempted[i].i > lastOp.attempted[j].i
        /\ held = {}

\* C4: in __exit__, a release that raises does not stop the others: every
\* callback of the stack is called, in reverse order, the stack is empty
\* afterwards, and whatever is still held is held because its own release
\* raised.
C4_CloseDrains ==
    (lastOp.op = "close" /\ lastOp.wasOpen) =>
        /\ exitstack.callbacks = <<>>
        /\ lastOp.attempted = Reverse(lastOp.pre)
        /\ \A i \in 1..Len(lastOp.attempted) :
              lastOp.attempted[i] \notin Range(lastOp.failed)
                 => Res(lastOp.attempted[i], dev) \notin held

\* __exit__ in which a release raised and a callback below it was still
\* called and released its resource.
C4_Witness ==
    /\ lastOp.op = "close"
    /\ \E i, j \in 1..Len(lastOp.attempted) :
          /\ i < j
          /\ lastOp.attempted[i] \in Range(lastOp.failed)
          /\ lastOp.attempted[j] \notin Range(lastOp.failed)
          /\ Res(lastOp.attempted[j], dev) \notin held

\* C5: dev and var are None whenever the BuildRoot is closed, and both are
\* set after an __enter__ that succeeded (the two directions of "non-null if
\* and only if open" that do not depend on how a failed call leaves
\* _exitstack).
C5_DirsIffOpen ==
    /\ ~isOpen => (dev = None /\ var = None)
    /\ (lastOp.op = "open" /\ lastOp.err = "none") => (dev # None /\ var # None)

\* C6: __enter__ on a BuildRoot that is open and holds resources raises
\* AlreadyOpen, acquires nothing and leaves the teardown stack as it was.
C6_AlreadyOpen ==
    (lastOp.op = "open" /\ lastOp.wasOpen /\ lastOp.pre # <<>>) =>
        /\ lastOp.err = "AlreadyOpen"
        /\ lastOp.acquired = <<>>
        /\ exitstack.callbacks = lastOp.pre

\* C7: the callbacks on the teardown stack release exactly the resources the
\* BuildRoot holds on the host (stated for the runs in which no release has
\* raised).
C7_StackIsHeld ==
    ~relFailed => held = {Res(e, dev) : e \in Range(exitstack.callbacks)}

\* C8: __exit__ on a BuildRoot that is not open raises nothing.
C8_CloseWhenClosed ==
    (lastOp.op = "close" /\ ~lastOp.wasOpen) => lastOp.err = "none"

\* C9: run() on a BuildRoot without active context raises "No active
\* context" before it composes any mount, and a process is only ever started
\* with an active context.
C9_RunNeedsOpen ==
    /\ (lastOp.op = "run" /\ ~isOpen) =>
          (lastOp.err = "NotOpen" /\ ~lastOp.spawned /\ lastOp.binds = <<>>)
    /\ lastOp.spawned => isOpen

\* run() refused on a BuildRoot that had been entered and was exited again
C9_Witness ==
    /\ lastOp.op = "run"
    /\ lastOp.err = "NotOpen"
    /\ opens > 0
    /\ dev # None

\* C10: the names of the registered endpoints are pairwise distinct, and run()
\* never binds two endpoints to the same /run/osbuild/api/<name>.
C10_UniqueNames ==
    /\ \A i, j \in 1..Len(apis) : i # j => apis[i] # apis[j]
    /\ \A i, j \in 1..Len(lastOp.binds) : i # j => lastOp.binds[i] # lastOp.binds[j]

\* C11: register_api on a BuildRoot without active context only records the
\* endpoint: nothing is acquired, no stack appears.  A successful __enter__
\* acquires every recorded endpoint and keeps its release on the stack.
\* register_api with an active context, when entering the endpoint succeeds,
\* acquires it at once and pushes its release on top of the live stack, and
\* the next run() binds it without a new __enter__.  Every run() that gets to
\* compose its mounts binds every registered endpoint at
\* /run/osbuild/api/<name>, in registration order.
C11_EndpointLifecycle ==
    /\ (lastOp.op = "register" /\ ~lastOp.wasOpen) =>
          /\ lastOp.err = "none"
          /\ lastOp.acquired = <<>>
          /\ exitstack = NoStack
          /\ Len(apis) = lastOp.arg
          /\ SubSeq(apis, 1, lastOp.arg - 1) = lastOp.preApis
          /\ \A r \in held : ~(r.kind = "api" /\ r.i = lastOp.arg)
    /\ (lastOp.op = "open" /\ lastOp.err = "none") =>
          \A i \in 1..Len(apis) :
             /\ Api(i, opens) \in held
             /\ Api(i, opens) \in Range(exitstack.callbacks)
    /\ (lastOp.op = "register" /\ lastOp.wasOpen /\ lastOp.err = "none") =>
          /\ lastOp.acquired = <<Api(lastOp.arg, opens)>>
          /\ Api(lastOp.arg, opens) \in held
          /\ exitstack.callbacks = Append(lastOp.pre, Api(lastOp.arg, opens))
          /\ RunOutcome.err # "NotOpen"
          /\ RunOutcome.binds[lastOp.arg] = <<"/run/osbuild/api", apis[lastOp.arg]>>
    /\ (lastOp.op = "run" /\ lastOp.err # "NotOpen") =>
          /\ Len(lastOp.binds) = Len(apis)
          /\ \A i \in 1..Len(apis) :
                lastOp.binds[i] = <<"/run/osbuild/api", apis[i]>>

\* a second endpoint registered inside the active context of an __enter__
\* that had acquired the first one: it is held, and run() would start the
\* process with both bound
C11_Witness ==
    /\ lastOp.op = "register"
    /\ lastOp.wasOpen
    /\ lastOp.err = "none"
    /\ lastOp.arg = 2
    /\ Api(1, opens) \in held
    /\ Api(2, opens) \in held
    /\ RunOutcome.spawned
    /\ Len(RunOutcome.binds) = 2

\* run() got as far as handing its list of mounts to Popen
Composed == res.mounts # <<>>
\* where a directive mounts: its last argument
Dst(d) == d.args[Len(d.args)]

\* the options and destinations of steps 3 to 8 of the documented order,
\* without the fallback of step 8
DocumentedFixed ==
    << <<"--symlink", "/lib">>, <<"--symlink", "/lib64">>, <<"--symlink", "/bin">>,
       <<"--symlink", "/sbin">>, <<"--dev-bind", "/dev">>, <<"--tmpfs", "/dev/shm">>,
       <<"--dir", "/etc">>, <<"--tmpfs", "/run">>, <<"--tmpfs", "/tmp">>,
       <<"--bind", "/var">>, <<"--proc", "/proc">>, <<"--ro-bind", "/sys">>,
       <<"--ro-bind-try", "/sys/fs/selinux">>, <<"--ro-bind-try", "/etc/mke2fs.conf">>,
       <<"--ro-bind", "/run/osbuild/lib">> >>

\* C12: the list of mounts run() gives to bwrap is, in this order: at most
\* the two imports, /boot before /usr; the four symlinks, /dev, /dev/shm,
\* /etc, /run, /tmp, /var, /proc, /sys, /sys/fs/selinux, /etc/mke2fs.conf and
\* the library, with its fallback when there is one; one --bind per element
\* of binds, in the order given; one --ro-bind per element of readonly_binds,
\* in the order given; /run/osbuild/api and one --bind per registered
\* endpoint, in registration order.  Nothing else is in the list.
C12_DocumentedOrder ==
    Composed =>
        \E nImp \in 0..2, nFb \in 0..1 :
            LET m == res.mounts
                nFix == Len(DocumentedFixed)
                rw == nImp + nFix + nFb
                ro == rw + Len(env.binds)
                api == ro + Len(env.readonly_binds) + 1
            IN  /\ Len(m) = api + Len(apis)
                /\ \A i \in 1..nFix :
                      <<m[nImp + i].opt, Dst(m[nImp + i])>> = DocumentedFixed[i]
                /\ \A i \in 1..nImp :
                      m[i].opt = "--ro-bind" /\ Dst(m[i]) \in {"/boot", "/usr"}
                /\ nImp = 2 => (Dst(m[1]) = "/boot" /\ Dst(m[2]) = "/usr")
                /\ nFb = 1 =>
                      /\ m[rw].opt = "--ro-bind"
                      /\ Dst(m[rw]) = "/run/osbuild/lib/osbuild"
                /\ \A j \in 1..Len(env.binds) :
                      /\ m[rw + j].opt = "--bind"
                      /\ m[rw + j].args = SplitColon(env.binds[j])
                /\ \A j \in 1..Len(env.readonly_binds) :
                      /\ m[ro + j].opt = "--ro-bind"
                      /\ m[ro + j].args = SplitColon(env.readonly_binds[j])
                /\ m[api].opt = "--dir"
                /\ m[api].args = <<"/run/osbuild/api">>
                /\ \A i \in 1..Len(apis) :
                      /\ m[api + i].opt = "--bind"
                      /\ m[api + i].args[1] = i
                      /\ Dst(m[api + i]) = ApiPath(apis[i])

\* a run() with both imports, the fallback, a read-write and a read-only
\* bind given by the caller and two registered endpoints
C12_Witness ==
    /\ res.err = "none"
    /\ Len(env.binds) = 1
    /\ Len(env.readonly_binds) = 1
    /\ env.binds # env.readonly_binds
    /\ Len(apis) = 2
    /\ env.osbuildDir = "empty"
    /\ Len(res.mounts) = 2 + Len(DocumentedFixed) + 1 + 2 + 1 + 2

\* directive i of the list binds the import p of the root tree read-only
IsImport(i, p) ==
    /\ res.mounts[i].opt = "--ro-bind"
    /\ Dst(res.mounts[i]) = SlashJoin(p)
    /\ res.mounts[i].args[1] = RootJoin(p)

\* C13: the list of mounts holds a read-only bind of <root>/boot at /boot
\* exactly when mount_boot is set and <root>/boot is a directory and no
\* symbolic link, and one of <root>/usr at /usr exactly when <root>/usr is a
\* directory and no symbolic link; neither occurs twice, and /boot comes
\* before /usr.
C13_ImportsBound ==
    Composed =>
        LET n == Len(res.mounts)
        IN  /\ (\E i \in 1..n : IsImport(i, "boot")) <=> (env.mount_boot /\ env.boot = "dir")
            /\ (\E i \in 1..n : IsImport(i, "usr")) <=> env.usr = "dir"
            /\ \A i, j \in 1..n :
                  /\ (IsImport(i, "boot") /\ IsImport(j, "usr")) => i < j
                  /\ (IsImport(i, "boot") /\ IsImport(j, "boot")) => i = j
                  /\ (IsImport(i, "usr") /\ IsImport(j, "usr")) => i = j

\* a run() with mount_boot unset on a root tree that has a directory boot
\* and whose usr is a symbolic link to a directory: nothing is imported
C13_Witness ==
    /\ res.spawned
    /\ ~env.mount_boot
    /\ env.boot = "dir"
    /\ env.usr = "linkdir"
    /\ res.mounts[1].opt = "--symlink"

\* the bytes of a sequence of buffers, or the text of a sequence of texts
RECURSIVE Flat(_)
Flat(ss) == IF ss = <<>> THEN <<>> ELSE Head(ss) \o Flat(Tail(ss))

\* C14: when the child has been started and the bytes it writes are the
\* UTF-8 encoding of a text T, then wherever the reads cut them run()
\* returns, the output of the CompletedBuild is T, and the texts passed to
\* monitor.log, put together in call order, are T.
C14_ChunksDoNotMatter ==
    (res.spawned /\ Decode(Flat(env.chunks)).ok) =>
        /\ res.err = "none"
        /\ res.returned
        /\ res.completed.output = Decode(Flat(env.chunks)).txt
        /\ Flat(res.log) = Decode(Flat(env.chunks)).txt

\* C15: run() leaves _exitstack, _apis, dev and var as they were when it was
\* called, whether it returns, raises "No active context", fails to start
\* bwrap or raises while it decodes the output.
C15_RunFrame ==
    res.err # "norun" => <<exitstack, apis, dev, var>> = res.pre

\* a run() with an active context and two endpoints that raised
\* UnicodeDecodeError: the context is still there
C15_Witness ==
    /\ res.err = "UnicodeDecodeError"
    /\ isOpen
    /\ Len(exitstack.callbacks) = 5
    /\ Len(apis) = 2
    /\ dev # None

\* C17: the exit status of the child does not make run() raise: run() raises
\* what it would raise had the child exited with 0, and when it returns, the
\* returncode of the CompletedBuild is the child's, its output, stdout and
\* stderr are all the text that was decoded and logged, and the BuildRoot
\* still has its active context, so that the same run() would start a
\* process again.
C17_NonZeroExit ==
    (res.err # "norun" /\ env.returncode # 0) =>
        /\ res.err = RunResult([env EXCEPT !.returncode = 0]).err
        /\ res.returned =>
              /\ res.completed.returncode = env.returncode
              /\ res.completed.output = Flat(res.log)
              /\ res.completed.stdout = res.completed.output
              /\ res.completed.stderr = res.completed.output
              /\ isOpen
              /\ <<exitstack, apis, dev, var>> = res.pre
              /\ RunResult(env).spawned

\* a child that wrote something and exited with 255: run() returned
C17_Witness ==
    /\ res.returned
    /\ env.returncode = 255
    /\ res.completed.returncode = 255
    /\ Len(res.completed.stdout) = MaxBytes
    /\ isOpen

\* C16: after an __enter__ that returned, the tmpfs mounted on self.dev is
\* held and contains exactly six nodes, all of them character devices with
\* the permission bits 0666: full (1,7), null (1,3), random (1,8),
\* urandom (1,9), tty (5,0) and zero (1,5); and an __enter__ leaves nodes
\* behind only in a tmpfs it has mounted itself.
C16_SixDeviceNodes ==
    /\ (lastOp.op = "open" /\ lastOp.err = "none") =>
          /\ Mount(dev) \in held
          /\ \A n \in devnodes : n.g = dev
          /\ Cardinality(devnodes) = 6
          /\ {<<n.name, major(n.device), minor(n.device), n.mode>> : n \in devnodes}
                = { <<"full", 1, 7, S_IFCHR + Mode666>>,
                    <<"null", 1, 3, S_IFCHR + Mode666>>,
                    <<"random", 1, 8, S_IFCHR + Mode666>>,
                    <<"urandom", 1, 9, S_IFCHR + Mode666>>,
                    <<"tty", 5, 0, S_IFCHR + Mode666>>,
                    <<"zero", 1, 5, S_IFCHR + Mode666>> }
    /\ (lastOp.op = "open" /\ devnodes # {}) =>
          \A n \in devnodes : Mount(n.g) \in Range(lastOp.acquired)

\* the resources __enter__ number g takes when every statement succeeds and
\* n endpoints are registered, in the documented order
DocumentedAcquisition(g, n) ==
    <<DevDir(g), VarDir(g), Mount(g)>> \o [i \in 1..n |-> Api(i, g)]

\* C18: __enter__ takes its resources in the documented order (the device
\* directory, the var directory, the tmpfs mount, then the endpoints in
\* registration order), stopping at the statement that raises; and when the
\* BuildRoot has an active context after an __enter__, every endpoint that
\* was registered before that __enter__ is held and has its release on the
\* stack.
C18_OpenOrder ==
    lastOp.op = "open" =>
        /\ Len(lastOp.acquired) <= 3 + Len(lastOp.preApis)
        /\ lastOp.acquired
              = SubSeq(DocumentedAcquisition(opens, Len(lastOp.preApis)),
                       1, Len(lastOp.acquired))
        /\ isOpen =>
              \A i \in 1..Len(lastOp.preApis) :
                 /\ Api(i, opens) \in held
                 /\ Api(i, opens) \in Range(exitstack.callbacks)

\* the stack is the one a successful __enter__ has built: it holds the
\* release of the device directory self.dev names
OpenedStack == isOpen /\ DevDir(dev) \in Range(exitstack.callbacks)

\* C19: while the BuildRoot has the active context of a successful
\* __enter__ (and no release has raised), every registered endpoint is held
\* exactly once and has exactly one release on the stack.
C19_EndpointsHeldOnce ==
    (OpenedStack /\ ~relFailed) =>
        \A i \in 1..Len(apis) :
           /\ Cardinality({r \in held : r.kind = "api" /\ r.i = i}) = 1
           /\ Cardinality({k \in 1..Len(exitstack.callbacks) :
                              /\ exitstack.callbacks[k].kind = "api"
                              /\ exitstack.callbacks[k].i = i}) = 1
====
